---- MODULE Spec2Model ----
(***************************************************************************)
(* yadloader-go: the paginated tree walker (YaDiskClient.GetTree/getTree), *)
(* the chunked downloaders (YaDiskClient.DownloadFile, downloadFile) and   *)
(* the download loops of the two programs.                                 *)
(*                                                                         *)
(* The remote share is the environment: an ordered tree of entries, a      *)
(* listing server that answers (path, limit, offset) requests, and the     *)
(* failures a request can end in.  The walker is the code of               *)
(* src/client.go:251-340, one action per step between two requests.        *)
(*                                                                         *)
(* Specifications:                                                         *)
(*   Spec, FairSpec  one GetTree call against every share and server       *)
(*   SpecCtx         the same with the caller's context: cancellation,     *)
(*                   deadline, a server that never answers                 *)
(*   SpecCalls       several GetTree calls on one client                   *)
(*   SpecEquiv       the walker beside the two other walkers of the        *)
(*                   repository, all three handed the same responses       *)
(*   SpecDownload    one download, by either downloader                    *)
(*   SpecBatch       the download loop over the files of a tree            *)
(***************************************************************************)
EXTENDS Integers, Sequences, FiniteSets, TLC

\* Bounds of the model.
MaxItems == 3          \* entries in the remote tree
MaxLimit == 2          \* Config.Limit ranges over 0..MaxLimit
MaxSize == 4           \* bytes in a download's source stream
MaxChunk == 3          \* chunk (buffer) size of a download ranges over 1..MaxChunk
MaxFiles == 4          \* files in the list a download loop goes through
MaxCalls == 2          \* GetTree invocations on one client

\* The page limit of the standalone getTree.
LIMIT == 100

\* NewDefaultConfig: Timeout and Wait, in seconds.
DefaultTimeout == 10
DefaultWait == 5

Min(a, b) == IF a < b THEN a ELSE b

VARIABLES
    remote,      \* the share: kind and parent of every entry, root type, paging mode
    config,      \* Config of the client (Limit, Timeout, Wait; durations in seconds)
    cb,          \* TRUE iff GetTree was given a progress callback
    stack,       \* the call stack of getTree: one frame per active invocation
    files,       \* *files, the shared accumulator
    count,       \* *count
    totalSize,   \* *totalSize
    cbLog,       \* history: the (count, totalSize) pairs the callback received
    reqLog,      \* history: the listing requests issued, in order
    outcome,     \* "idle", "running", "returned", "panic", "cutoff"
    result,      \* what GetTree returned: the slice (nil or not) and the error
    non2xx,      \* history: a listing request ended in a non-2xx response
    failure,     \* history: the error a request or a decode ended in, or "none"
    slept,       \* the duration of the walker's last time.Sleep, 0 before the first
    ctx,         \* the caller's context: cancelled or not, with a deadline of its own or not
    batch,       \* the download loop over the files of a tree: position, attempts so far
    calls,       \* the errors the earlier GetTree invocations on this client returned, in order
    others,      \* the repository's two other walkers, fed the responses this one receives
    dl           \* one download: response status, source stream, buffer, destination

vars == <<remote, config, cb, stack, files, count, totalSize, cbLog, reqLog,
          outcome, result, non2xx, failure, dl, slept, ctx, batch, calls, others>>

(***************************************************************************)
(* The remote share.  Entries are numbered 1..n; parent[i] < i, 0 is the   *)
(* start path; a directory lists its children in increasing number.  Every *)
(* finite ordered tree has such a numbering.                               *)
(* Kinds: "file" (all fields present), "dir", "other" (a type that is      *)
(* neither), "nilfile" (type file, with size/hash/url absent in the JSON). *)
(***************************************************************************)
Kinds == {"file", "dir", "other", "nilfile"}

Trees ==
    UNION { { [kind |-> k, parent |-> p] :
                k \in [1..n -> Kinds],
                p \in { q \in [1..n -> 0..MaxItems] :
                          \A i \in 1..n : q[i] < i } } : n \in 0..MaxItems }

\* Children hang under directories; at most one entry of the tree is neither a
\* well-formed file nor a directory.
WellShaped(t) ==
    /\ \A i \in 1..Len(t.kind) : t.parent[i] = 0 \/ t.kind[t.parent[i]] = "dir"
    /\ Cardinality({ i \in 1..Len(t.kind) : t.kind[i] \in {"other", "nilfile"} }) <= 1

\* Paging modes of the server: "paged" honours offset and limit, returning at
\* most cap entries per page; "unpaged" ignores both and returns the listing.
Remotes ==
    { [kind |-> t.kind, parent |-> t.parent, rootType |-> rt, mode |-> m, cap |-> c] :
        t \in { u \in Trees : WellShaped(u) },
        rt \in {"dir"},
        m \in {"paged"},
        c \in 1..MaxLimit }
    \cup
    { [kind |-> t.kind, parent |-> t.parent, rootType |-> rt, mode |-> m, cap |-> c] :
        t \in { u \in Trees : WellShaped(u) },
        rt \in {"dir"},
        m \in {"unpaged"},
        c \in {MaxLimit} }
    \cup
    { [kind |-> <<>>, parent |-> <<>>, rootType |-> "file", mode |-> "paged", cap |-> c] :
        c \in {MaxLimit} }

FileSize(i) == 2 * i - 1

Listing(d) ==
    SelectSeq([i \in 1..Len(remote.kind) |-> i], LAMBDA i : remote.parent[i] = d)

\* One element of _embedded.items; a pointer field is a sequence of length <= 1.
Entry(i) ==
    [Type |-> IF remote.kind[i] = "nilfile" THEN "file" ELSE remote.kind[i],
     Path |-> i,
     Size |-> IF remote.kind[i] = "file" THEN <<FileSize(i)>> ELSE <<>>]

ServerPage(d, limit, offset) ==
    LET l == Listing(d)
        n == Min(limit, remote.cap)
    IN  IF remote.mode = "unpaged" THEN l
        ELSE SubSeq(l, offset + 1, Min(Len(l), offset + n))

\* The decoded body of a 200 response.
Response(d, limit, offset) ==
    IF d = 0 /\ remote.rootType = "file"
    THEN [Type |-> "file", Embedded |-> <<>>]
    ELSE LET page == ServerPage(d, limit, offset)
         IN  [Type |-> "dir",
              Embedded |-> << [Items |-> [k \in 1..Len(page) |-> Entry(page[k])],
                               Total |-> Len(Listing(d))] >>]

\* The decoded JSON error body of a 4xx response: no field of `response` is set.
ErrorBody == [Type |-> "", Embedded |-> <<>>]

(***************************************************************************)
(* The walker.                                                             *)
(***************************************************************************)
NilResult == [nil |-> TRUE, files |-> <<>>, err |-> "none"]

\* A getTree invocation: its path, its offset, the items of the page it is in
\* that are still to be processed, and the length of that page.
NewFrame(d) == [path |-> d, offset |-> 0, items |-> <<>>, got |-> 0, pc |-> "fetch"]

Top == stack[Len(stack)]
SetTop(f) == [stack EXCEPT ![Len(stack)] = f]
Pop == SubSeq(stack, 1, Len(stack) - 1)

\* The history of requests keeps the first LogCap of them.
LogCap == 2 * MaxItems + 2
Record(log, e) == IF Len(log) < LogCap THEN Append(log, e) ELSE log

\* Exploration limit: no walk of a paged listing passes it.
Explorable == Top.offset <= MaxItems + MaxLimit /\ Len(files) <= MaxItems

(***************************************************************************)
(* The two other walkers of the repository: the earlier                    *)
(* YaDiskClient.GetTree (client.go:77-149) and the standalone getTree      *)
(* (yadloader.go:142-212).  Each invocation keeps its own list and returns *)
(* it; the caller appends it to its own.  They differ in the page limit:   *)
(* c.config.Limit in the first, the constant LIMIT in the second.  A       *)
(* walker is its stack of invocations, its outcome, what it returned and   *)
(* the history of its requests.  When `others.on`, the two run beside the  *)
(* accumulator-passing walker and are handed, at each of their requests,   *)
(* the response that walker received.                                      *)
(***************************************************************************)
NotStarted == [stack |-> <<>>, outcome |-> "idle", result |-> NilResult, reqLog |-> <<>>]
NoOthers == [on |-> FALSE, reappend |-> NotStarted, standalone |-> NotStarted]

\* var offset = 0; var files []diskFile
TreeFrame(d) == [path |-> d, offset |-> 0, items |-> <<>>, files |-> <<>>, pc |-> "fetch"]
Started == [NotStarted EXCEPT !.stack = <<TreeFrame(0)>>, !.outcome = "running"]

\* A caller that puts a subtree's list in front of its own.
ReappendInFront(fs, subFiles) == subFiles \o fs
\* if subFiles != nil { for _, f := range subFiles { files = append(files, ...) } }
Reappend(fs, subFiles) == fs \o subFiles

\* `break`, `return files, nil`: to the caller's item loop, or out of the walk.
\* A list nothing was appended to is the nil slice.
WalkReturn(w) ==
    LET n == Len(w.stack)
        fs == w.stack[n].files
    IN  IF n = 1
        THEN [w EXCEPT !.stack = <<>>,
                       !.outcome = "returned",
                       !.result = [nil |-> fs = <<>>, files |-> fs, err |-> "none"]]
        ELSE [w EXCEPT !.stack = [k \in 1..(n - 1) |->
                                    IF k = n - 1
                                    THEN [w.stack[k] EXCEPT !.files = Reappend(@, fs)]
                                    ELSE w.stack[k]]]

\* One request and what follows it: `return nil, err` on an error of request or
\* Unmarshal, the end test, or the item loop.
WalkFetch(w, resp) ==
    LET n == Len(w.stack)
        top == w.stack[n]
        got == IF resp.kind = "error" \/ resp.body.Embedded = <<>> THEN 0
               ELSE Len(resp.body.Embedded[1].Items)
        v == [w EXCEPT !.reqLog = Record(@, [path |-> top.path, offset |-> top.offset,
                                             got |-> got])]
    IN  IF resp.kind = "error"
        THEN [v EXCEPT !.stack = <<>>,
                       !.outcome = "returned",
                       !.result = [nil |-> TRUE, files |-> <<>>, err |-> resp.err]]
        ELSE IF got = 0
        THEN WalkReturn(v)
        ELSE [v EXCEPT !.stack[n].items = resp.body.Embedded[1].Items,
                       !.stack[n].pc = "items"]

\* One iteration of `for _, i := range r.Embedded.Items`.
WalkItem(w) ==
    LET n == Len(w.stack)
        i == Head(w.stack[n].items)
        rest == [w EXCEPT !.stack[n].items = Tail(@)]
    IN  CASE i.Type = "file" /\ i.Size # <<>> ->
               [rest EXCEPT !.stack[n].files = Append(@, [Path |-> i.Path, Size |-> i.Size[1]])]
          [] i.Type = "file" /\ i.Size = <<>> ->
               [w EXCEPT !.stack = <<>>, !.outcome = "panic"]
          [] i.Type = "dir" ->
               [rest EXCEPT !.stack = Append(@, TreeFrame(i.Path))]
          [] OTHER -> rest

\* offset += limit; time.Sleep
WalkSleep(w, limit) ==
    LET n == Len(w.stack)
    IN  [w EXCEPT !.stack[n].offset = @ + limit, !.stack[n].pc = "fetch"]

\* The walker's next step; resp is the response to hand to its next request.
WalkStep(w, limit, resp) ==
    IF w.outcome # "running" THEN w
    ELSE LET top == w.stack[Len(w.stack)]
         IN  IF top.pc = "fetch"
             THEN IF resp.kind = "none" THEN w ELSE WalkFetch(w, resp)
             ELSE IF top.items # <<>> THEN WalkItem(w) ELSE WalkSleep(w, limit)

NoResponse == [kind |-> "none"]
ErrorOf(e) == [kind |-> "error", err |-> e]
BodyOf(r) == [kind |-> "body", body |-> r]

OthersStart ==
    others' = IF others.on
              THEN [others EXCEPT !.reappend = Started, !.standalone = Started]
              ELSE others

OthersStep(resp) ==
    others' = IF others.on
              THEN [others EXCEPT !.reappend = WalkStep(@, config.Limit, resp),
                                  !.standalone = WalkStep(@, LIMIT, resp)]
              ELSE others

NoDownload == [pc |-> "idle"]
NoBatch == [pc |-> "idle"]

Init ==
    /\ remote \in Remotes
    /\ config \in [Limit : 0..MaxLimit, Timeout : {DefaultTimeout}, Wait : {DefaultWait}]
    /\ cb = FALSE
    /\ stack = <<>>
    /\ files = <<>>
    /\ count = 0
    /\ totalSize = 0
    /\ cbLog = <<>>
    /\ reqLog = <<>>
    /\ outcome = "idle"
    /\ result = NilResult
    /\ non2xx = FALSE
    /\ failure = "none"
    /\ dl = NoDownload
    /\ others = NoOthers
    /\ calls = <<>>
    /\ batch = NoBatch
    /\ ctx = [cancelled |-> FALSE, deadline |-> FALSE]
    /\ slept = 0

\* An accumulator that is a field of the client, kept from call to call.
KeptAccumulator(old) == old
\* files := make([]diskFile, 0, c.config.Limit)
NewAccumulator(old) == <<>>

\* GetTree: path "" is "/", fresh accumulator and counters, first getTree call.
GetTree(withCb) ==
    /\ outcome = "idle"
    /\ outcome' = "running"
    /\ cb' = withCb
    /\ files' = NewAccumulator(files)
    /\ count' = 0
    /\ totalSize' = 0
    /\ stack' = <<NewFrame(0)>>
    /\ OthersStart
    /\ UNCHANGED <<calls, batch, ctx, slept, dl, remote, config,
                   cbLog, reqLog, result, non2xx, failure>>

\* A later GetTree call on the same client, after the one before has returned.
\* The histories start anew with the call.
GetTreeAgain(withCb) ==
    /\ outcome = "returned"
    /\ Len(calls) + 1 < MaxCalls
    /\ calls' = Append(calls, result.err)
    /\ outcome' = "running"
    /\ cb' = withCb
    /\ files' = NewAccumulator(files)
    /\ count' = 0
    /\ totalSize' = 0
    /\ stack' = <<NewFrame(0)>>
    /\ result' = NilResult
    /\ cbLog' = <<>>
    /\ reqLog' = <<>>
    /\ non2xx' = FALSE
    /\ failure' = "none"
    /\ slept' = 0
    /\ UNCHANGED <<others, batch, ctx, dl, remote, config>>

\* A return that hands out what was accumulated, with the error.
ErrorResultPartial(fs, e) == [nil |-> FALSE, files |-> fs, err |-> e]
\* GetTree's return on a getTree error: return nil, err.
ErrorResult(fs, e) == [nil |-> TRUE, files |-> <<>>, err |-> e]
\* GetTree's return on success: return files, nil.
OkResult(fs) == [nil |-> FALSE, files |-> fs, err |-> "none"]

\* A walker that gives up the failing directory only and goes on in its parent.
AbortLeavesDirectory(e) ==
    IF Len(stack) = 1
    THEN /\ stack' = <<>>
         /\ outcome' = "returned"
         /\ result' = ErrorResult(files, e)
    ELSE /\ stack' = SubSeq(stack, 1, Len(stack) - 1)
         /\ UNCHANGED <<outcome, result>>

\* `return err` at any depth: every caller returns it at once (client.go:329-331).
Abort(e) ==
    /\ stack' = <<>>
    /\ outcome' = "returned"
    /\ result' = ErrorResult(files, e)

\* `break` then `return nil`: back in the caller's item loop, or out of GetTree.
Return ==
    IF Len(stack) = 1
    THEN /\ stack' = <<>>
         /\ outcome' = "returned"
         /\ result' = OkResult(files)
    ELSE /\ stack' = Pop
         /\ UNCHANGED <<outcome, result>>

\* An end test that looks for the _embedded object only.
EndOfListingNoEmbedded(r) == r.Embedded = <<>>
\* resp.Embedded == nil || len(resp.Embedded.Items) == 0
EndOfListing(r) == r.Embedded = <<>> \/ Len(r.Embedded[1].Items) = 0

\* After json.Unmarshal succeeded on r.
Decoded(r) ==
    IF EndOfListing(r)
    THEN Return
    ELSE /\ stack' = SetTop([Top EXCEPT !.items = r.Embedded[1].Items,
                                       !.got = Len(r.Embedded[1].Items),
                                       !.pc = "items"])
         /\ UNCHANGED <<outcome, result>>

CanFetch == outcome = "running" /\ Top.pc = "fetch" /\ Explorable
\* A response can come back only while the request's context is not cancelled.
CanRespond == CanFetch /\ ~ctx.cancelled

\* The error c.request returns: the context's when it is cancelled (client.Do
\* gives up on ctx.Done()), else the transport's.
RequestError == IF ctx.cancelled THEN "cancelled" ELSE "transport"

\* c.request returns an error (retries exhausted, network failure, cancellation).
RequestFails ==
    /\ CanFetch
    /\ reqLog' = Record(reqLog, [path |-> Top.path, offset |-> Top.offset, got |-> 0])
    /\ Abort(RequestError)
    /\ failure' = RequestError
    /\ OthersStep(ErrorOf(RequestError))
    /\ UNCHANGED <<calls, batch, ctx, slept, dl, remote, config, cb,
                   files, count, totalSize, cbLog, non2xx>>

\* The body is not JSON of the expected shape.
DecodeFails ==
    /\ CanRespond
    /\ reqLog' = Record(reqLog, [path |-> Top.path, offset |-> Top.offset, got |-> 0])
    /\ Abort("decode")
    /\ failure' = "decode"
    /\ OthersStep(ErrorOf("decode"))
    /\ UNCHANGED <<calls, batch, ctx, slept, dl, remote, config, cb,
                   files, count, totalSize, cbLog, non2xx>>

\* A 200 response with the page the server serves at (path, limit, offset).
FetchPage ==
    /\ CanRespond
    /\ LET r == Response(Top.path, config.Limit, Top.offset)
       IN  /\ reqLog' = Record(reqLog, [path |-> Top.path, offset |-> Top.offset,
                                       got |-> IF r.Embedded = <<>> THEN 0
                                               ELSE Len(r.Embedded[1].Items)])
           /\ Decoded(r)
    /\ OthersStep(BodyOf(Response(Top.path, config.Limit, Top.offset)))
    /\ UNCHANGED <<calls, batch, ctx, slept, dl, remote, config, cb,
                   files, count, totalSize, cbLog, non2xx, failure>>

\* The final response is 4xx with a JSON error body: client.Do returns it with a
\* nil error, request returns the body, json.Unmarshal accepts it.
FetchNon2xx ==
    /\ CanRespond
    /\ ~non2xx
    /\ reqLog' = Record(reqLog, [path |-> Top.path, offset |-> Top.offset, got |-> 0])
    /\ non2xx' = TRUE
    /\ Decoded(ErrorBody)
    /\ OthersStep(BodyOf(ErrorBody))
    /\ UNCHANGED <<calls, batch, ctx, slept, dl, remote, config, cb,
                   files, count, totalSize, cbLog, failure>>

DiskFile(e) == [Path |-> e.Path, Size |-> e.Size[1]]

\* A walker that puts each new result in front.
PrependFile(fs, f) == <<f>> \o fs
\* *files = append(*files, diskFile{...})
AppendFile(fs, f) == Append(fs, f)
\* *count++
CountAfterFile(c) == c + 1
\* A total that holds the last size only.
TotalNotCumulative(t, size) == size
\* *totalSize += int64(*i.Size)
TotalAfterFile(t, size) == t + size
\* notify(): cb(*count, *totalSize) when a callback was given.
Notify(log, c, t) == IF cb THEN Append(log, <<c, t>>) ELSE log

HasItem == outcome = "running" /\ Top.pc = "items" /\ Top.items # <<>>
Item == Head(Top.items)
Advance == [Top EXCEPT !.items = Tail(Top.items)]

\* case FILE, every pointer field set.
ProcessFile ==
    /\ HasItem
    /\ Item.Type = "file"
    /\ Item.Size # <<>>
    /\ files' = AppendFile(files, DiskFile(Item))
    /\ count' = CountAfterFile(count)
    /\ totalSize' = TotalAfterFile(totalSize, Item.Size[1])
    /\ cbLog' = Notify(cbLog, count', totalSize')
    /\ stack' = SetTop(Advance)
    /\ OthersStep(NoResponse)
    /\ UNCHANGED <<calls, batch, ctx, slept, dl, remote, config, cb,
                   reqLog, outcome, result, non2xx, failure>>

\* case FILE with a nil pointer field: *i.Size dereferences nil, the goroutine panics.
ProcessNilFile ==
    /\ HasItem
    /\ Item.Type = "file"
    /\ Item.Size = <<>>
    /\ outcome' = "panic"
    /\ stack' = <<>>
    /\ OthersStep(NoResponse)
    /\ UNCHANGED <<calls, batch, ctx, slept, dl, remote, config, cb,
                   files, count, totalSize, cbLog, reqLog, result, non2xx,
                   failure>>

\* case DIR: recursive getTree call on the entry's path.
ProcessDir ==
    /\ HasItem
    /\ Item.Type = "dir"
    /\ stack' = Append(SetTop(Advance), NewFrame(Item.Path))
    /\ OthersStep(NoResponse)
    /\ UNCHANGED <<calls, batch, ctx, slept, dl, remote, config, cb,
                   files, count, totalSize, cbLog, reqLog, outcome, result,
                   non2xx, failure>>

\* A switch whose default case takes the entry for a file.
ProcessOtherAsFile ==
    /\ HasItem
    /\ Item.Type \notin {"file", "dir"}
    /\ files' = AppendFile(files, [Path |-> Item.Path, Size |-> 0])
    /\ count' = CountAfterFile(count)
    /\ cbLog' = Notify(cbLog, count', totalSize)
    /\ stack' = SetTop(Advance)
    /\ UNCHANGED <<others, calls, batch, ctx, slept, dl, remote, config, cb,
                   totalSize, reqLog, outcome, result, non2xx, failure>>

\* Any other type: the switch has no case for it.
ProcessOther ==
    /\ HasItem
    /\ Item.Type \notin {"file", "dir"}
    /\ stack' = SetTop(Advance)
    /\ OthersStep(NoResponse)
    /\ UNCHANGED <<calls, batch, ctx, slept, dl, remote, config, cb,
                   files, count, totalSize, cbLog, reqLog, outcome, result,
                   non2xx, failure>>

\* An offset that steps one entry too far.
NextOffsetSkipsOne(offset, limit, got) == offset + limit + 1
\* An offset that advances by the number of entries received.
NextOffsetByCount(offset, limit, got) == offset + got
\* offset += c.config.Limit
NextOffset(offset, limit, got) == offset + limit

\* time.Sleep(c.config.Timeout)
SleepDuration(cfg) == cfg.Timeout

\* End of the item loop: offset += Limit; time.Sleep; next iteration.
Sleep ==
    /\ outcome = "running"
    /\ Top.pc = "items"
    /\ Top.items = <<>>
    /\ stack' = SetTop([Top EXCEPT !.offset = NextOffset(Top.offset, config.Limit, Top.got),
                                  !.pc = "fetch"])
    /\ slept' = SleepDuration(config)
    /\ OthersStep(NoResponse)
    /\ UNCHANGED <<calls, batch, ctx, dl, remote, config, cb, files,
                   count, totalSize, cbLog, reqLog, outcome, result,
                   non2xx, failure>>

\* The model stops following a walk that has passed the exploration limit.
Cutoff ==
    /\ outcome = "running"
    /\ Top.pc = "fetch"
    /\ ~Explorable
    /\ outcome' = "cutoff"
    /\ UNCHANGED <<others, calls, batch, ctx, slept, dl, remote, config, cb,
                   stack, files, count, totalSize, cbLog, reqLog, result,
                   non2xx, failure>>

Next ==
    \/ \E withCb \in BOOLEAN : GetTree(withCb)
    \/ RequestFails
    \/ DecodeFails
    \/ FetchPage
    \/ FetchNon2xx
    \/ ProcessFile
    \/ ProcessNilFile
    \/ ProcessDir
    \/ ProcessOther
    \/ Sleep
    \/ Cutoff

Spec == Init /\ [][Next]_vars

\* The walker is one sequential goroutine: while it has a step, it takes one.
FairSpec == Init /\ [][Next]_vars /\ WF_vars(Next)

(***************************************************************************)
(* The caller's context.  GetTree hands ctx to every request and to        *)
(* nothing else: the item loop and time.Sleep do not look at it.  The      *)
(* request's context is the caller's, and the HTTP client is built without *)
(* a timeout, so a request has the deadline of ctx or none.                *)
(***************************************************************************)
\* The caller cancels ctx while the walk is in progress.
Cancel ==
    /\ outcome = "running"
    /\ ~ctx.cancelled
    /\ ctx' = [ctx EXCEPT !.cancelled = TRUE]
    /\ UNCHANGED <<others, calls, batch, slept, dl, remote, config, cb, stack,
                   files, count, totalSize, cbLog, reqLog, outcome, result,
                   non2xx, failure>>

\* Whether the request built by NewRequestWithContext(ctx, ...) has a deadline.
RequestDeadline == ctx.deadline

\* The server accepts the request and never answers: client.Do returns at the
\* request's deadline, or not at all.
RequestHangs ==
    /\ CanRespond
    /\ reqLog' = Record(reqLog, [path |-> Top.path, offset |-> Top.offset, got |-> 0])
    /\ IF RequestDeadline
       THEN /\ Abort("deadline")
            /\ failure' = "deadline"
       ELSE /\ stack' = SetTop([Top EXCEPT !.pc = "blocked"])
            /\ UNCHANGED <<outcome, result, failure>>
    /\ UNCHANGED <<others, calls, batch, ctx, slept, dl, remote, config, cb,
                   files, count, totalSize, cbLog, non2xx>>

InFlight == outcome = "running" /\ Top.pc = "blocked"

\* ctx is cancelled while client.Do waits: Do returns the context's error.
RequestAborted ==
    /\ InFlight
    /\ ctx.cancelled
    /\ Abort("cancelled")
    /\ failure' = "cancelled"
    /\ UNCHANGED <<others, calls, batch, ctx, slept, dl, remote, config, cb,
                   files, count, totalSize, cbLog, reqLog, non2xx>>

InitCtx ==
    /\ remote \in Remotes
    /\ config \in [Limit : 0..MaxLimit, Timeout : {DefaultTimeout}, Wait : {DefaultWait}]
    /\ ctx \in [cancelled : {FALSE}, deadline : BOOLEAN]
    /\ cb = FALSE
    /\ stack = <<>>
    /\ files = <<>>
    /\ count = 0
    /\ totalSize = 0
    /\ cbLog = <<>>
    /\ reqLog = <<>>
    /\ outcome = "idle"
    /\ result = NilResult
    /\ non2xx = FALSE
    /\ failure = "none"
    /\ slept = 0
    /\ dl = NoDownload
    /\ others = NoOthers
    /\ calls = <<>>
    /\ batch = NoBatch

NextCtx ==
    \/ \E withCb \in BOOLEAN : GetTree(withCb)
    \/ Cancel
    \/ RequestFails
    \/ RequestHangs
    \/ RequestAborted
    \/ DecodeFails
    \/ FetchPage
    \/ FetchNon2xx
    \/ ProcessFile
    \/ ProcessNilFile
    \/ ProcessDir
    \/ ProcessOther
    \/ Sleep
    \/ Cutoff

SpecCtx == InitCtx /\ [][NextCtx]_vars

(***************************************************************************)
(* Several GetTree calls on one client, one after the other, against a     *)
(* share that does not change and a server that serves full pages.         *)
(***************************************************************************)
InitCalls ==
    /\ remote \in { r \in Remotes :
                       /\ r.mode = "paged" /\ r.cap = MaxLimit /\ r.rootType = "dir"
                       /\ \A i \in 1..Len(r.kind) : r.kind[i] \in {"file", "dir"} }
    /\ config \in [Limit : 0..MaxLimit, Timeout : {DefaultTimeout}, Wait : {DefaultWait}]
    /\ cb = FALSE
    /\ stack = <<>>
    /\ files = <<>>
    /\ count = 0
    /\ totalSize = 0
    /\ cbLog = <<>>
    /\ reqLog = <<>>
    /\ outcome = "idle"
    /\ result = NilResult
    /\ non2xx = FALSE
    /\ failure = "none"
    /\ slept = 0
    /\ ctx = [cancelled |-> FALSE, deadline |-> FALSE]
    /\ dl = NoDownload
    /\ others = NoOthers
    /\ batch = NoBatch
    /\ calls = <<>>

NextCalls ==
    \/ \E withCb \in BOOLEAN : GetTree(withCb)
    \/ \E withCb \in BOOLEAN : GetTreeAgain(withCb)
    \/ RequestFails
    \/ FetchPage
    \/ ProcessFile
    \/ ProcessDir
    \/ Sleep

SpecCalls == InitCalls /\ [][NextCalls]_vars

(***************************************************************************)
(* The three walkers side by side, against a paging server: the two others *)
(* are started with GetTree and handed every response it receives.         *)
(***************************************************************************)
InitEquiv ==
    /\ remote \in { r \in Remotes : r.mode = "paged" }
    /\ config \in [Limit : 0..MaxLimit, Timeout : {DefaultTimeout}, Wait : {DefaultWait}]
    /\ cb = FALSE
    /\ stack = <<>>
    /\ files = <<>>
    /\ count = 0
    /\ totalSize = 0
    /\ cbLog = <<>>
    /\ reqLog = <<>>
    /\ outcome = "idle"
    /\ result = NilResult
    /\ non2xx = FALSE
    /\ failure = "none"
    /\ slept = 0
    /\ ctx = [cancelled |-> FALSE, deadline |-> FALSE]
    /\ dl = NoDownload
    /\ batch = NoBatch
    /\ calls = <<>>
    /\ others = [NoOthers EXCEPT !.on = TRUE]

NextEquiv ==
    \/ \E withCb \in BOOLEAN : GetTree(withCb)
    \/ RequestFails
    \/ DecodeFails
    \/ FetchPage
    \/ FetchNon2xx
    \/ ProcessFile
    \/ ProcessNilFile
    \/ ProcessDir
    \/ ProcessOther
    \/ Sleep

SpecEquiv == InitEquiv /\ [][NextEquiv]_vars

(***************************************************************************)
(* The downloaders.  The response body is a stream of dl.src; a Read into  *)
(* a buffer of `chunk` bytes returns 1..chunk of the bytes that remain,    *)
(* and io.EOF either with the last bytes or on the Read after them.        *)
(* "CopyBuffer" is YaDiskClient.DownloadFile (io.CopyBuffer's loop),       *)
(* "ReadLoop" is downloadFile's own loop.                                  *)
(***************************************************************************)
Stream(n) == [k \in 1..n |-> k]

\* http.StatusOK
StatusOK == 200
\* The status of the final response the retrying client hands back without an
\* error: 200, or a status it does not retry (404 for one).
Statuses == {StatusOK, 404}

NewDownload(how, status, size, chunk) ==
    [pc |-> "copy", how |-> how, status |-> status, src |-> Stream(size), pos |-> 0,
     buffer |-> [k \in 1..chunk |-> 0], dst |-> <<>>]

\* DownloadFile: client.Do returned a response and no error;
\* buffer := make([]byte, ChunkSize).  The status is not looked at.
DownloadFile(status, size, chunk) ==
    /\ dl.pc = "idle"
    /\ dl' = NewDownload("CopyBuffer", status, size, chunk)
    /\ UNCHANGED <<others, calls, batch, ctx, slept, remote, config, cb,
                   stack, files, count, totalSize, cbLog, reqLog, outcome,
                   result, non2xx, failure>>

\* downloadFile: any status but 200 is an error, returned before the output is
\* created; else buffer := make([]byte, CHUNKSIZE).
downloadFile(status, size, chunk) ==
    /\ dl.pc = "idle"
    /\ dl' = IF status # StatusOK
             THEN [NewDownload("ReadLoop", status, size, chunk) EXCEPT !.pc = "failed"]
             ELSE NewDownload("ReadLoop", status, size, chunk)
    /\ UNCHANGED <<others, calls, batch, ctx, slept, remote, config, cb,
                   stack, files, count, totalSize, cbLog, reqLog, outcome,
                   result, non2xx, failure>>

Remaining == Len(dl.src) - dl.pos

\* resp.Body.Read(buffer) putting n bytes at the front of the buffer.
ReadInto(buffer, n) ==
    [k \in 1..Len(buffer) |-> IF k <= n THEN dl.src[dl.pos + k] ELSE buffer[k]]

\* writer.Write(buffer[:n])
Written(dst, buffer, n) == dst \o SubSeq(buffer, 1, n)

\* One iteration of either loop's Read: n bytes, and whether io.EOF comes with them.
Reads ==
    IF Remaining = 0 THEN { [n |-> 0, eof |-> TRUE] }
    ELSE { r \in [n : 1..Min(Len(dl.buffer), Remaining), eof : BOOLEAN] :
             r.eof => r.n = Remaining }

\* io.CopyBuffer: write what was read, then look at the error.
CopyBuffer ==
    /\ dl.pc = "copy"
    /\ dl.how = "CopyBuffer"
    /\ \E r \in Reads :
          LET b == ReadInto(dl.buffer, r.n)
          IN  dl' = [dl EXCEPT !.buffer = b,
                               !.pos = @ + r.n,
                               !.dst = IF r.n > 0 THEN Written(@, b, r.n) ELSE @,
                               !.pc = IF r.eof THEN "done" ELSE "copy"]
    /\ UNCHANGED <<others, calls, batch, ctx, slept, remote, config, cb,
                   stack, files, count, totalSize, cbLog, reqLog, outcome,
                   result, non2xx, failure>>

\* downloadFile's loop: on any error of Read, io.EOF included, leave the loop
\* before the write.
ReadLoop ==
    /\ dl.pc = "copy"
    /\ dl.how = "ReadLoop"
    /\ \E r \in Reads :
          LET b == ReadInto(dl.buffer, r.n)
          IN  dl' = [dl EXCEPT !.buffer = b,
                               !.pos = @ + r.n,
                               !.dst = IF r.eof THEN @ ELSE Written(@, b, r.n),
                               !.pc = IF r.eof THEN "done" ELSE "copy"]
    /\ UNCHANGED <<others, calls, batch, ctx, slept, remote, config, cb,
                   stack, files, count, totalSize, cbLog, reqLog, outcome,
                   result, non2xx, failure>>

InitDownload ==
    /\ remote = [kind |-> <<>>, parent |-> <<>>, rootType |-> "dir",
                 mode |-> "paged", cap |-> MaxLimit]
    /\ config = [Limit |-> MaxLimit, Timeout |-> DefaultTimeout, Wait |-> DefaultWait]
    /\ cb = FALSE
    /\ stack = <<>>
    /\ files = <<>>
    /\ count = 0
    /\ totalSize = 0
    /\ cbLog = <<>>
    /\ reqLog = <<>>
    /\ outcome = "idle"
    /\ result = NilResult
    /\ non2xx = FALSE
    /\ failure = "none"
    /\ dl = NoDownload
    /\ others = NoOthers
    /\ calls = <<>>
    /\ batch = NoBatch
    /\ ctx = [cancelled |-> FALSE, deadline |-> FALSE]
    /\ slept = 0

NextDownload ==
    \/ \E status \in Statuses, size \in 0..MaxSize, chunk \in 1..MaxChunk :
          DownloadFile(status, size, chunk)
    \/ \E status \in Statuses, size \in 0..MaxSize, chunk \in 1..MaxChunk :
          downloadFile(status, size, chunk)
    \/ CopyBuffer
    \/ ReadLoop

SpecDownload == InitDownload /\ [][NextDownload]_vars

(***************************************************************************)
(* The download loops over the files GetTree returned: "main" is the loop  *)
(* of the command-line program (unnamed/part_000:96-121), "downloadFiles"  *)
(* the loop of the standalone program (yadloader.go:231-240).  A download  *)
(* ends in nil or in an error; the folder of a file can fail to be made.   *)
(***************************************************************************)
NewBatch(how, n) == [pc |-> "loop", how |-> how, n |-> n, log |-> <<>>]

\* main: for _, file := range files
CliMain(n) ==
    /\ batch.pc = "idle"
    /\ batch' = IF n = 0 THEN [NewBatch("main", n) EXCEPT !.pc = "done"]
                 ELSE NewBatch("main", n)
    /\ UNCHANGED <<others, calls, remote, config, cb, stack, files, count,
                   totalSize, cbLog, reqLog, outcome, result, non2xx,
                   failure, slept, ctx, dl>>

\* downloadFiles: for _, file := range files
DownloadFiles(n) ==
    /\ batch.pc = "idle"
    /\ batch' = IF n = 0 THEN [NewBatch("downloadFiles", n) EXCEPT !.pc = "done"]
                 ELSE NewBatch("downloadFiles", n)
    /\ UNCHANGED <<others, calls, remote, config, cb, stack, files, count,
                   totalSize, cbLog, reqLog, outcome, result, non2xx,
                   failure, slept, ctx, dl>>

InLoop == batch.pc = "loop"
ThisFile == Len(batch.log) + 1
\* The loop goes to the next file, or ends after the last.
LoopOn(b) == IF Len(b.log) = b.n THEN [b EXCEPT !.pc = "done"] ELSE b

\* makeFolder / os.MkdirAll fails: log.Fatal in main, `return err` in downloadFiles.
FolderFails ==
    /\ InLoop
    /\ batch' = [batch EXCEPT !.pc = "nofolder"]
    /\ UNCHANGED <<others, calls, remote, config, cb, stack, files, count,
                   totalSize, cbLog, reqLog, outcome, result, non2xx,
                   failure, slept, ctx, dl>>

\* The download of this file returns nil.
FileDownloaded ==
    /\ InLoop
    /\ batch' = LoopOn([batch EXCEPT !.log = Append(@, [file |-> ThisFile, ok |-> TRUE])])
    /\ UNCHANGED <<others, calls, remote, config, cb, stack, files, count,
                   totalSize, cbLog, reqLog, outcome, result, non2xx,
                   failure, slept, ctx, dl>>

\* After a failed download: main calls log.Fatal(err) and the process exits;
\* downloadFiles calls log.Printf and goes on.
AfterFailure(b) == IF b.how = "main" THEN [b EXCEPT !.pc = "fatal"] ELSE LoopOn(b)

\* The download of this file returns an error.
FileFails ==
    /\ InLoop
    /\ batch' = AfterFailure([batch EXCEPT !.log = Append(@, [file |-> ThisFile, ok |-> FALSE])])
    /\ UNCHANGED <<others, calls, remote, config, cb, stack, files, count,
                   totalSize, cbLog, reqLog, outcome, result, non2xx,
                   failure, slept, ctx, dl>>

InitBatch ==
    /\ remote = [kind |-> <<>>, parent |-> <<>>, rootType |-> "dir",
                 mode |-> "paged", cap |-> MaxLimit]
    /\ config = [Limit |-> MaxLimit, Timeout |-> DefaultTimeout, Wait |-> DefaultWait]
    /\ cb = FALSE
    /\ stack = <<>>
    /\ files = <<>>
    /\ count = 0
    /\ totalSize = 0
    /\ cbLog = <<>>
    /\ reqLog = <<>>
    /\ outcome = "idle"
    /\ result = NilResult
    /\ non2xx = FALSE
    /\ failure = "none"
    /\ slept = 0
    /\ ctx = [cancelled |-> FALSE, deadline |-> FALSE]
    /\ dl = NoDownload
    /\ others = NoOthers
    /\ calls = <<>>
    /\ batch = NoBatch

NextBatch ==
    \/ \E n \in 0..MaxFiles : CliMain(n)
    \/ \E n \in 0..MaxFiles : DownloadFiles(n)
    \/ FolderFails
    \/ FileDownloaded
    \/ FileFails

SpecBatch == InitBatch /\ [][NextBatch]_vars

(***************************************************************************)
(* What the walk is measured against.                                      *)
(***************************************************************************)
Returned == outcome = "returned"
ReturnedOk == Returned /\ result.err = "none"
Paged == remote.mode = "paged"
\* The server serves entries offset+1..offset+limit at every offset.
FullPages == Paged /\ config.Limit >= 1 /\ remote.cap >= config.Limit
\* Every file-typed entry carries its size, hashes and url.
WellFormed == \A i \in 1..Len(remote.kind) : remote.kind[i] # "nilfile"
RemoteFiles == { i \in 1..Len(remote.kind) : remote.kind[i] = "file" }
Occurrences(fs, i) == Cardinality({ k \in 1..Len(fs) : fs[k].Path = i })
IsPrefix(s, t) == Len(s) <= Len(t) /\ \A k \in 1..Len(s) : s[k] = t[k]

RECURSIVE SumSizes(_, _)
SumSizes(fs, k) == IF k = 0 THEN 0 ELSE fs[k].Size + SumSizes(fs, k - 1)

\* The entries of directory d a walker meets when it pages from offset o by
\* `limit` until the first empty page (paged servers only).
RECURSIVE Visible(_, _)
Visible(d, o) ==
    LET p == ServerPage(d, config.Limit, o)
    IN  IF p = <<>> THEN <<>> ELSE p \o Visible(d, o + config.Limit)

\* The files below a sequence of entries, each directory's subtree in place.
RECURSIVE Flatten(_)
Flatten(items) ==
    IF items = <<>> THEN <<>>
    ELSE LET i == Head(items)
             here == CASE remote.kind[i] = "file" -> <<DiskFile(Entry(i))>>
                       [] remote.kind[i] = "dir" -> Flatten(Visible(i, 0))
                       [] OTHER -> <<>>
         IN  here \o Flatten(Tail(items))

\* The answer to the first listing request carries no entry.
RootAnswerIsEmpty ==
    LET r == Response(0, config.Limit, 0)
    IN  r.Embedded = <<>> \/ r.Embedded[1].Items = <<>>

DirReqs(d) == SelectSeq(reqLog, LAMBDA e : e.path = d)

AllFilesOnce(fs) ==
    /\ Len(fs) = Cardinality(RemoteFiles)
    /\ \A i \in RemoteFiles : Occurrences(fs, i) = 1

(***************************************************************************)
(* C1 as stated: for every finite tree of N well-formed files and every    *)
(* way a paging server cuts the listings into pages (any page size the     *)
(* server chooses, limit >= 1), a walk with no failed request returns      *)
(* without error exactly the N files, each once.                           *)
(***************************************************************************)
C1_EveryPaging ==
    (Paged /\ config.Limit >= 1 /\ WellFormed /\ ~non2xx) =>
        /\ outcome # "panic"
        /\ ReturnedOk => ~result.nil /\ AllFilesOnce(result.files)

(***************************************************************************)
(* C1 amended: the same, for a server that serves at every offset the      *)
(* entries offset+1..offset+limit of the listing (limit >= 1).             *)
(***************************************************************************)
C1_FullPages ==
    (FullPages /\ WellFormed /\ ~non2xx) =>
        /\ outcome # "panic"
        /\ ReturnedOk => ~result.nil /\ AllFilesOnce(result.files)

C1_Witness ==
    /\ ReturnedOk /\ FullPages /\ WellFormed /\ ~non2xx
    /\ Cardinality(RemoteFiles) >= 2
    /\ \E i \in RemoteFiles : remote.parent[i] # 0
    /\ \E d \in 0..Len(remote.kind) : Len(Listing(d)) > config.Limit
    /\ AllFilesOnce(result.files)

(***************************************************************************)
(* C2: once a listing request or a decode has failed, at any depth and any *)
(* offset, GetTree has returned a nil slice and that error; no partial     *)
(* collection is returned.                                                 *)
(***************************************************************************)
C2_ErrorReturnsNil ==
    /\ failure # "none" =>
          Returned /\ result.nil /\ result.files = <<>> /\ result.err = failure
    /\ (Returned /\ result.err # "none") => result.nil /\ result.files = <<>>

C2_Witness ==
    /\ failure # "none" /\ Returned /\ result.nil /\ Paged
    /\ Len(files) >= 1
    /\ reqLog[Len(reqLog)].path # 0
    /\ reqLog[Len(reqLog)].offset > 0

(***************************************************************************)
(* C3: with a callback, the k-th invocation is for the k-th file result    *)
(* and receives count k and the sum of the sizes of results 1..k; the      *)
(* counters run across directories.                                        *)
(***************************************************************************)
C3_Callback ==
    cb => /\ Len(cbLog) = Len(files)
          /\ count = Len(files)
          /\ \A k \in 1..Len(cbLog) : cbLog[k] = <<k, SumSizes(files, k)>>

C3_Witness ==
    /\ cb /\ ReturnedOk /\ Len(cbLog) >= 2
    /\ \E j, k \in 1..Len(files) :
          j < k /\ remote.parent[files[j].Path] # remote.parent[files[k].Path]
    /\ cbLog[Len(cbLog)] = <<Len(files), SumSizes(files, Len(files))>>

(***************************************************************************)
(* C4: within a directory the requests go to offsets 0, limit, 2*limit,    *)
(* ... in order and end with the first empty page, whatever total the      *)
(* server reports; a directory of exactly `limit` entries takes exactly    *)
(* two requests (offsets 0 and limit) and yields all its files.            *)
(***************************************************************************)
C4_Pagination ==
    \A d \in 0..Len(remote.kind) :
        LET R == DirReqs(d)
        IN  /\ R # <<>> => R[1].offset = 0
            /\ \A k \in 1..(Len(R) - 1) :
                  R[k + 1].offset \in {0, R[k].offset + config.Limit}
            /\ Paged =>
                  \A k \in 1..Len(R) :
                      /\ R[k].offset = (k - 1) * config.Limit
                      /\ k < Len(R) => R[k].got > 0
            /\ (FullPages /\ Len(Listing(d)) = config.Limit) =>
                  /\ Len(R) <= 2
                  /\ (ReturnedOk /\ ~non2xx /\ R # <<>>) =>
                        /\ Len(R) = 2
                        /\ R[1].got = config.Limit
                        /\ R[2].got = 0
                        /\ \A i \in RemoteFiles :
                              remote.parent[i] = d => Occurrences(result.files, i) = 1

C4_Witness ==
    /\ ReturnedOk /\ FullPages /\ ~non2xx
    /\ \E d \in 0..Len(remote.kind) :
          /\ Len(Listing(d)) = config.Limit
          /\ Len(DirReqs(d)) = 2
          /\ DirReqs(d)[2].offset = config.Limit
    /\ \E d \in 0..Len(remote.kind) : Len(DirReqs(d)) = 3

(***************************************************************************)
(* C5: the files come in depth-first order: at every moment the            *)
(* accumulator is a prefix of the depth-first flattening of the entries    *)
(* the server serves, a subtree's files in one block at its directory's    *)
(* place, and the returned sequence is that flattening.                    *)
(***************************************************************************)
C5_DepthFirst ==
    (Paged /\ ~non2xx) =>
        /\ IsPrefix(files, Flatten(Visible(0, 0)))
        /\ (ReturnedOk /\ remote.rootType = "dir") =>
              result.files = Flatten(Visible(0, 0))

C5_Witness ==
    /\ ReturnedOk /\ FullPages /\ ~non2xx
    /\ Len(result.files) >= 2
    /\ \E k \in 1..(Len(result.files) - 1) :
          /\ result.files[k].Path > result.files[k + 1].Path
          /\ remote.parent[result.files[k].Path] # 0
          /\ remote.parent[result.files[k + 1].Path] = 0
    /\ result.files = Flatten(Visible(0, 0))

(***************************************************************************)
(* C6: a finished download has written to the destination exactly the      *)
(* bytes of the source stream, in order, for every chunk size and every    *)
(* way the reader cuts the stream into reads, a last read that returns     *)
(* bytes together with end-of-stream included.                             *)
(***************************************************************************)
C6_ByteIdentical == dl.pc = "done" => dl.dst = dl.src

(***************************************************************************)
(* C7: whatever the server answers (a page that is never empty, a limit of *)
(* 0 that never advances the offset), the walk eventually stops.  A walk   *)
(* that passed the exploration limit counts as stopped.                    *)
(***************************************************************************)
C7_WalkStops == <>(outcome \in {"returned", "panic", "cutoff"})

(***************************************************************************)
(* C8: a file-typed entry with an absent size, hash or url does not crash  *)
(* the walk: GetTree returns nil and a decode error.                       *)
(***************************************************************************)
C8_NilFieldIsDecodeError ==
    /\ outcome # "panic"
    /\ (HasItem /\ Item.Type = "file" /\ Item.Size = <<>>) =>
          (Returned /\ result.nil /\ result.err = "decode")

(***************************************************************************)
(* C9: a listing request whose final response is non-2xx makes GetTree     *)
(* return an error; it is not taken for an exhausted directory.            *)
(***************************************************************************)
C9_Non2xxIsError ==
    non2xx => (Returned /\ result.nil /\ result.err # "none")

(***************************************************************************)
(* C10: when the start path names a file (the root response has type       *)
(* file), GetTree returns an error, not an empty listing.                  *)
(***************************************************************************)
C10_RootFileRejected ==
    (Returned /\ remote.rootType = "file" /\ ~non2xx) => result.err # "none"

(***************************************************************************)
(* C11: once the context is cancelled during a walk, no listing request    *)
(* completes successfully, no file result is appended, no callback fires   *)
(* and the walker does not sleep the inter-page delay; when GetTree        *)
(* returns, it returns nil and the cancellation error.                     *)
(***************************************************************************)
C11_CancelStopsWalk ==
    /\ []((ctx.cancelled /\ Returned) => (result.nil /\ result.err = "cancelled"))
    /\ [][ctx.cancelled =>
            /\ files' = files
            /\ cbLog' = cbLog
            /\ slept' = slept /\ ~Sleep
            /\ reqLog' # reqLog => failure' = "cancelled"]_vars

(***************************************************************************)
(* C12: every element of the accumulator, and so of the returned sequence, *)
(* comes from an entry of type file with its fields set; the running count *)
(* is the number of those elements and the callback has fired once per     *)
(* element: a directory or an entry of another type adds no element, no    *)
(* count and no callback.                                                  *)
(***************************************************************************)
C12_OnlyFilesSurface ==
    /\ \A k \in 1..Len(files) : remote.kind[files[k].Path] = "file"
    /\ \A k \in 1..Len(result.files) : remote.kind[result.files[k].Path] = "file"
    /\ count = Len(files)
    /\ Len(cbLog) = IF cb THEN Len(files) ELSE 0

C12_Witness ==
    /\ ReturnedOk /\ cb /\ ~non2xx
    /\ \E i, j \in 1..Len(remote.kind) :
          /\ remote.kind[i] = "dir" /\ remote.kind[j] = "other"
          /\ Len(DirReqs(i)) >= 1
          /\ Len(DirReqs(remote.parent[j])) >= 2
    /\ Len(result.files) = 1
    /\ count = 1
    /\ Len(cbLog) = 1

(***************************************************************************)
(* C13: when the answer to the first listing request has no _embedded      *)
(* object or no items (a share with no entries), that request is the only  *)
(* one: nothing is accumulated, the callback is not invoked, and GetTree   *)
(* returns an empty sequence and a nil error.                              *)
(***************************************************************************)
C13_EmptyShare ==
    (RootAnswerIsEmpty /\ failure = "none") =>
        /\ Len(reqLog) <= 1
        /\ files = <<>> /\ count = 0 /\ cbLog = <<>>
        /\ outcome \in {"idle", "running", "returned"}
        /\ Len(reqLog) = 1 => Returned
        /\ Returned => /\ Len(reqLog) = 1
                       /\ result.files = <<>>
                       /\ result.err = "none"

C13_Witness ==
    /\ Returned /\ cb /\ ~non2xx
    /\ remote.kind = <<>> /\ remote.rootType = "dir"
    /\ config.Limit >= 1
    /\ reqLog = <<[path |-> 0, offset |-> 0, got |-> 0]>>
    /\ result.files = <<>> /\ result.err = "none"
    /\ cbLog = <<>>

(***************************************************************************)
(* C14: in the download loop of the command-line program a failed download *)
(* does not end the batch: the loop is never left because a download       *)
(* failed, and when it ends a download was attempted for every file of the *)
(* list, in list order.                                                    *)
(***************************************************************************)
C14_BatchSurvivesFailure ==
    batch.pc \notin {"idle", "nofolder"} =>
        /\ batch.pc # "fatal"
        /\ \A k \in 1..Len(batch.log) : batch.log[k].file = k
        /\ batch.pc = "done" => Len(batch.log) = batch.n

(***************************************************************************)
(* C15: once a listing request has returned an error to the walker, the    *)
(* walk is over: every getTree frame has returned, GetTree has returned    *)
(* the transport's error as it was, and from then on no request is issued  *)
(* and nothing is appended.                                                *)
(***************************************************************************)
C15_ErrorEndsWalk ==
    /\ [](failure = "transport" =>
            /\ Returned /\ stack = <<>>
            /\ result.err = "transport"
            /\ reqLog # <<>>
            /\ Len(reqLog) < LogCap => reqLog[Len(reqLog)].got = 0)
    /\ [][failure = "transport" => reqLog' = reqLog /\ files' = files]_vars

C15_Witness ==
    /\ failure = "transport" /\ Returned /\ result.err = "transport"
    /\ Len(files) >= 1
    /\ reqLog[Len(reqLog)].path # 0
    /\ \E j \in 1..Len(remote.kind) :
          /\ remote.kind[j] = "dir"
          /\ remote.parent[j] = 0
          /\ DirReqs(j) = <<>>

(***************************************************************************)
(* C16: the pause the walker makes between two page fetches of a directory *)
(* lasts the inter-page delay Config.Wait, not the per-request timeout     *)
(* Config.Timeout.                                                         *)
(***************************************************************************)
C16_SleepsInterPageDelay ==
    slept # 0 => slept = config.Wait /\ slept # config.Timeout

(***************************************************************************)
(* C17: every request carries a deadline, so no request waits without end  *)
(* for a server that never answers, whether or not the caller's context    *)
(* has a deadline.                                                         *)
(***************************************************************************)
C17_RequestsCarryDeadline == ~\E k \in 1..Len(stack) : stack[k].pc = "blocked"

(***************************************************************************)
(* C18: a GetTree call that follows another on the same client starts      *)
(* with an empty accumulator, count 0 and total size 0, whether the call   *)
(* before failed or not; what it accumulates, what its callback receives   *)
(* and what it returns are those of a first call on the same share; no     *)
(* call changes the configuration.                                         *)
(***************************************************************************)
C18_CallsAreIndependent ==
    /\ [](/\ IsPrefix(files, Flatten(Visible(0, 0)))
          /\ count = Len(files)
          /\ totalSize = SumSizes(files, Len(files))
          /\ cb => /\ Len(cbLog) = Len(files)
                   /\ \A k \in 1..Len(cbLog) : cbLog[k] = <<k, SumSizes(files, k)>>
          /\ ReturnedOk => result.files = Flatten(Visible(0, 0)))
    /\ [][/\ calls' # calls => files' = <<>> /\ count' = 0 /\ totalSize' = 0
          /\ config' = config]_vars

C18_Witness ==
    /\ calls = <<"transport">>
    /\ ReturnedOk /\ cb
    /\ Len(result.files) >= 2
    /\ result.files = Flatten(Visible(0, 0))
    /\ cbLog[Len(cbLog)] = <<Len(files), SumSizes(files, Len(files))>>
    /\ Len(reqLog) >= 3

(***************************************************************************)
(* C19 as stated: handed the same responses, the three walkers issue the   *)
(* same listing requests (path, offset) in the same order, stop in the     *)
(* same way, and return the same files in the same order or the same       *)
(* error.                                                                  *)
(***************************************************************************)
SameOutcome(w) ==
    /\ w.outcome = outcome
    /\ Returned => w.result.files = result.files /\ w.result.err = result.err

C20_OnlyOkBodiesWritten ==
    (dl.pc # "idle" /\ dl.status # StatusOK) => (dl.dst = <<>> /\ dl.pc # "done")

====
